---- MODULE Spec2Model ----
(***************************************************************************)
(* Model of the script index builder (scripts/generate-script-index.ts)    *)
(* and of the hash normalizer (scripts/archived/import-missing-scripts.ts).*)
(*                                                                         *)
(* Project labels are sequences of one-character strings, hashes are       *)
(* run-length encoded strings.  An optional field is None (absent /        *)
(* undefined) or Some(v).                                                  *)
(*                                                                         *)
(* The environment of a behaviour is fixed: whether registry/projects      *)
(* exists, whether the DBS_DATABASE_* variables are set and whether the    *)
(* db-sync server answers.  The tool is run up to MaxRuns times on the     *)
(* files the previous run left; the first run may be interrupted, and the  *)
(* run after an interrupted one is the last.                               *)
(***************************************************************************)
EXTENDS Integers, Sequences, FiniteSets, TLC

VARIABLES
  \* ---- the filesystem
  indexFile,            \* registry/scripts/script-index.json
  outputDir,            \* whether registry/scripts exists
  projectFiles,         \* registry/projects/*.json in readdir order
  projectsDir,          \* whether registry/projects exists
  \* ---- the environment of the process
  dbEnv,                \* whether the DBS_DATABASE_* variables are set
  dbSync,               \* the db-sync server: "live" or "failing"
  \* ---- generateScriptIndex: arguments, locals and position
  pc,                   \* position in generateScriptIndex
  dryRun,               \* the --dry-run flag
  dbAvailable,          \* result of initDb()
  dbPool,               \* the module-level pool: "null", "open" or "ended"
  scripts,              \* const scripts  (line 165)
  projects,             \* const projects (line 166)
  added, updated, unchanged, lookupCount,
  projectFilesToUpdate, \* Map filePath -> project, in insertion order
  fileIdx,              \* index of the file the for loop of line 184 is at
  scriptIdx,            \* index of the script the for loop of line 220 is at
  project,              \* the parsed project object of the current file
  projectId,            \* projectId of the current file
  projectModified,      \* let projectModified (line 189)
  writeIdx,             \* position in the loop of line 315
  index,                \* const index (line 324)
  exitCode,             \* None while the process runs, else Some(exit code)
  \* ---- observations kept for the properties
  runNo,                \* number of runs started
  atStart,              \* the filesystem as this run found it
  log,                  \* one event per script record processed by this run
  prev,                 \* inputs and summary of the previous run
  indexWrites,          \* number of writes of the index file by this run
  projLog,              \* one event per project entry upserted by this run
  \* ---- the hash normalizer applied to a drawn input
  normPc, normIn, normOut

runVars == <<pc, dryRun, dbAvailable, dbPool, scripts, projects, added, updated,
             unchanged, lookupCount, projectFilesToUpdate, fileIdx, scriptIdx,
             project, projectId, projectModified, writeIdx, index>>
diskVars == <<indexFile, outputDir, projectFiles>>
envVars == <<projectsDir, dbEnv, dbSync>>
obsVars == <<runNo, atStart, log, prev, indexWrites>>
normVars == <<normPc, normIn, normOut>>
vars == <<diskVars, envVars, runVars, exitCode, obsVars, projLog, normVars>>

----------------------------------------------------------------------------
\* Optional values

None == <<>>
Some(v) == <<v>>
IsSome(o) == Len(o) = 1
Get(o) == o[1]

\* a || b on optional values whose present values are truthy
OrElse(a, b) == IF IsSome(a) THEN a ELSE b

----------------------------------------------------------------------------
\* Characters and strings

LowerChars == <<"a", "b", "c", "d", "e", "f">>
UpperChars == <<"A", "B", "C", "D", "E", "F">>
DigitChars == <<"0", "1", "9">>

Range(s) == {s[i] : i \in 1..Len(s)}

IsLower(c) == c \in Range(LowerChars)
IsUpper(c) == c \in Range(UpperChars)
IsDigit(c) == c \in Range(DigitChars)
IsSpaceOrUnderscore(c) == c \in {" ", "_"}

\* String.prototype.toLowerCase on one character
ToLowerChar(c) ==
  IF IsUpper(c)
    THEN LowerChars[CHOOSE i \in 1..Len(UpperChars) : UpperChars[i] = c]
    ELSE c

\* String.prototype.toLowerCase
ToLowerCase(s) == [i \in 1..Len(s) |-> ToLowerChar(s[i])]

----------------------------------------------------------------------------
\* Hash strings.  A hash is kept run-length encoded: a sequence of runs
\* [c |-> character, n |-> number of repetitions >= 1] in which adjacent runs
\* differ in their character, so that equal strings have equal encodings.

\* n copies of character c
Rep(c, n) == IF n = 0 THEN <<>> ELSE <<[c |-> c, n |-> n]>>

\* Concatenation of two encoded strings
Concat(s, t) ==
  IF Len(s) = 0 THEN t
  ELSE IF Len(t) = 0 THEN s
  ELSE IF s[Len(s)].c = t[1].c
    THEN SubSeq(s, 1, Len(s) - 1)
           \o <<[c |-> t[1].c, n |-> s[Len(s)].n + t[1].n]>>
           \o Tail(t)
    ELSE s \o t

\* hash.length
RECURSIVE Length(_)
Length(s) == IF Len(s) = 0 THEN 0 ELSE s[1].n + Length(Tail(s))

\* hash[i - 1], for 1 <= i <= hash.length
RECURSIVE CharAt(_, _)
CharAt(s, i) == IF i <= s[1].n THEN s[1].c ELSE CharAt(Tail(s), i - s[1].n)

\* hash.toLowerCase()
RECURSIVE HashToLowerCase(_)
HashToLowerCase(s) ==
  IF Len(s) = 0 THEN <<>>
  ELSE Concat(Rep(ToLowerChar(s[1].c), s[1].n), HashToLowerCase(Tail(s)))

\* hash.slice(0, k)
RECURSIVE HashSlice0(_, _)
HashSlice0(s, k) ==
  IF Len(s) = 0 \/ k <= 0 THEN <<>>
  ELSE IF s[1].n >= k THEN Rep(s[1].c, k)
  ELSE Concat(Rep(s[1].c, s[1].n), HashSlice0(Tail(s), k - s[1].n))

----------------------------------------------------------------------------
\* normalizeHash (scripts/archived/import-missing-scripts.ts)

PaymentCredLen == 56
FullAddressLen == 112

normalizeHash_noTruncate(hash) == HashToLowerCase(hash)

normalizeHash(hash) ==
  IF Length(hash) = FullAddressLen
    THEN HashToLowerCase(HashSlice0(hash, PaymentCredLen))
    ELSE HashToLowerCase(hash)

----------------------------------------------------------------------------
\* toKebabCase (scripts/generate-script-index.ts)

\* .replace(/([a-z])([A-Z])/g, '$1-$2')
RECURSIVE SplitCamel(_)
SplitCamel(s) ==
  IF Len(s) = 0 THEN <<>>
  ELSE IF Len(s) >= 2 /\ IsLower(s[1]) /\ IsUpper(s[2])
    THEN <<s[1], "-">> \o SplitCamel(Tail(s))
    ELSE <<s[1]>> \o SplitCamel(Tail(s))

\* .replace(/[\s_]+/g, '-')
RECURSIVE JoinSeparators(_)
JoinSeparators(s) ==
  IF Len(s) = 0 THEN <<>>
  ELSE IF IsSpaceOrUnderscore(s[1])
    THEN IF Len(s) >= 2 /\ IsSpaceOrUnderscore(s[2])
           THEN JoinSeparators(Tail(s))
           ELSE <<"-">> \o JoinSeparators(Tail(s))
    ELSE <<s[1]>> \o JoinSeparators(Tail(s))

\* .replace(/[^a-z0-9-]/gi, '')
StripOther(s) ==
  SelectSeq(s, LAMBDA c : IsLower(c) \/ IsUpper(c) \/ IsDigit(c) \/ c = "-")

toKebabCase(str) == ToLowerCase(StripOther(JoinSeparators(SplitCamel(str))))

----------------------------------------------------------------------------
\* lookupScriptInfo (scripts/generate-script-index.ts)

\* The rows of db-sync's script table: the raw type stored for a hash, "norow"
\* when the query returns no row, "throw" when the query fails.  A live server
\* answers from its table; with a failing server every query throws, returns
\* no row or returns a type the builder does not recognise.
H1 == Rep("a", PaymentCredLen)
H1Upper == Rep("A", PaymentCredLen)
H2 == Rep("b", PaymentCredLen)
HLong == Concat(Rep("A", PaymentCredLen), Rep("b", PaymentCredLen))
HLongKey == Concat(Rep("a", PaymentCredLen), Rep("b", PaymentCredLen))

DbSyncRow(scriptHash) ==
  IF dbSync = "live"
    THEN CASE scriptHash = H1 -> "PlutusV2"
           [] scriptHash = H2 -> "plutusv3"
           [] scriptHash = HLongKey -> "timelock"
           [] OTHER -> "norow"
    ELSE CASE scriptHash = H1 -> "throw"
           [] scriptHash = H2 -> "multisig"
           [] OTHER -> "norow"

\* dbType.match(/PlutusV(\d)/i) and parseInt(match[1], 10), on the raw types
\* of DbSyncRow
PlutusVersionOf_caseSensitive(dbType) ==
  CASE dbType = "PlutusV1" -> Some(1)
    [] dbType = "PlutusV2" -> Some(2)
    [] OTHER -> None

PlutusVersionOf(dbType) ==
  CASE dbType = "PlutusV1" -> Some(1)
    [] dbType = "PlutusV2" -> Some(2)
    [] dbType = "plutusv3" -> Some(3)
    [] OTHER -> None

\* The result is None for null and Some([type, plutusVersion]) otherwise.
lookupScriptInfo_defaultPlutus(pool, scriptHash) ==
  IF pool # "open" THEN None
  ELSE LET dbType == DbSyncRow(scriptHash) IN
    IF dbType \in {"throw", "norow"} THEN None
    ELSE IF dbType = "timelock" THEN Some([type |-> "NATIVE", plutusVersion |-> 0])
    ELSE Some([type |-> "PLUTUS",
               plutusVersion |-> Get(OrElse(PlutusVersionOf(dbType), Some(1)))])

lookupScriptInfo(pool, scriptHash) ==
  IF pool # "open" THEN None
  ELSE LET dbType == DbSyncRow(scriptHash) IN
    IF dbType \in {"throw", "norow"} THEN None
    ELSE IF dbType = "timelock" THEN Some([type |-> "NATIVE", plutusVersion |-> 0])
    ELSE IF IsSome(PlutusVersionOf(dbType))
      THEN Some([type |-> "PLUTUS", plutusVersion |-> Get(PlutusVersionOf(dbType))])
      ELSE None

----------------------------------------------------------------------------
\* Per-script processing of generateScriptIndex (lines 220-298)

\* const hash = script.scriptHash.toLowerCase()  (line 225)
HashKey(scriptHash) == HashToLowerCase(scriptHash)

\* scripts[hash]: None when the map has no such key
EntryAt(map, key) == IF key \in DOMAIN map THEN Some(map[key]) ELSE None

\* existing?.type && existing?.plutusVersion !== undefined  (line 235)
HasBoth(existing) ==
  IsSome(existing) /\ IsSome(Get(existing).type) /\ IsSome(Get(existing).plutusVersion)

\* !type || plutusVersion === undefined  (line 233)
LacksInfo(script) == ~IsSome(script.type) \/ ~IsSome(script.plutusVersion)

\* The script object after the fields of info were copied onto it
\* (lines 236-247 and 254-266); info is [type, plutusVersion], both present.
FillFrom_overwrite(script, info) ==
  [script EXCEPT !.type = Some(info.type),
                 !.plutusVersion = Some(info.plutusVersion)]

FillFrom(script, info) ==
  [script EXCEPT !.type = OrElse(script.type, Some(info.type)),
                 !.plutusVersion = OrElse(script.plutusVersion, Some(info.plutusVersion))]

\* Lines 229-271: the script object after resolution, whether the project was
\* marked modified, the number of lookups issued and where the fields came from.
Resolve_dbFirst(script, existing, hash, available, pool) ==
  IF ~LacksInfo(script)
    THEN [script |-> script, modified |-> FALSE, lookups |-> 0, source |-> "record"]
  ELSE IF available
    THEN LET info == lookupScriptInfo(pool, hash) IN
         IF IsSome(info)
           THEN [script |-> FillFrom(script, Get(info)), modified |-> TRUE,
                 lookups |-> 1, source |-> "db"]
           ELSE [script |-> script, modified |-> FALSE, lookups |-> 1, source |-> "none"]
  ELSE IF HasBoth(existing)
    THEN [script |-> FillFrom(script, [type |-> Get(Get(existing).type),
                                       plutusVersion |-> Get(Get(existing).plutusVersion)]),
          modified |-> TRUE, lookups |-> 0, source |-> "index"]
  ELSE [script |-> script, modified |-> FALSE, lookups |-> 0, source |-> "none"]

Resolve_noWriteBack(script, existing, hash, available, pool) ==
  IF ~LacksInfo(script)
    THEN [script |-> script, modified |-> FALSE, lookups |-> 0, source |-> "record"]
  ELSE IF HasBoth(existing)
    THEN [script |-> FillFrom(script, [type |-> Get(Get(existing).type),
                                       plutusVersion |-> Get(Get(existing).plutusVersion)]),
          modified |-> FALSE, lookups |-> 0, source |-> "index"]
  ELSE IF available
    THEN LET info == lookupScriptInfo(pool, hash) IN
         IF IsSome(info)
           THEN [script |-> FillFrom(script, Get(info)), modified |-> TRUE,
                 lookups |-> 1, source |-> "db"]
           ELSE [script |-> script, modified |-> FALSE, lookups |-> 1, source |-> "none"]
  ELSE [script |-> script, modified |-> FALSE, lookups |-> 0, source |-> "none"]

Resolve(script, existing, hash, available, pool) ==
  IF ~LacksInfo(script)
    THEN [script |-> script, modified |-> FALSE, lookups |-> 0, source |-> "record"]
  ELSE IF HasBoth(existing)
    THEN [script |-> FillFrom(script, [type |-> Get(Get(existing).type),
                                       plutusVersion |-> Get(Get(existing).plutusVersion)]),
          modified |-> TRUE, lookups |-> 0, source |-> "index"]
  ELSE IF available
    THEN LET info == lookupScriptInfo(pool, hash) IN
         IF IsSome(info)
           THEN [script |-> FillFrom(script, Get(info)), modified |-> TRUE,
                 lookups |-> 1, source |-> "db"]
           ELSE [script |-> script, modified |-> FALSE, lookups |-> 1, source |-> "none"]
  ELSE [script |-> script, modified |-> FALSE, lookups |-> 0, source |-> "none"]

\* const newEntry: ScriptEntry = {...}  (lines 273-279)
NewEntry_defaultPlutus(pid, script) ==
  [projectId |-> pid, name |-> script.name, purpose |-> script.purpose,
   type |-> OrElse(script.type, Some("PLUTUS")),
   plutusVersion |-> OrElse(script.plutusVersion, Some(2))]

NewEntry(pid, script) ==
  [projectId |-> pid, name |-> script.name, purpose |-> script.purpose,
   type |-> script.type, plutusVersion |-> script.plutusVersion]

\* The three-way comparison of lines 281-297
Diff_ignorePurpose(existing, newEntry) ==
  IF ~IsSome(existing) THEN "added"
  ELSE IF \/ Get(existing).projectId # newEntry.projectId
          \/ Get(existing).name # newEntry.name
          \/ Get(existing).type # newEntry.type
          \/ Get(existing).plutusVersion # newEntry.plutusVersion
    THEN "updated"
    ELSE "unchanged"

Diff(existing, newEntry) ==
  IF ~IsSome(existing) THEN "added"
  ELSE IF \/ Get(existing).projectId # newEntry.projectId
          \/ Get(existing).name # newEntry.name
          \/ Get(existing).purpose # newEntry.purpose
          \/ Get(existing).type # newEntry.type
          \/ Get(existing).plutusVersion # newEntry.plutusVersion
    THEN "updated"
    ELSE "unchanged"

\* map[key] = value
Put(map, key, value) == (key :> value) @@ map

\* { ...old, ...new }
Spread_mergeDefined(old, new) ==
  [k \in DOMAIN old \cup DOMAIN new |->
     IF k \notin DOMAIN new THEN old[k]
     ELSE IF k \in DOMAIN old /\ k \in {"subCategory", "link"} /\ new[k] = None
       THEN old[k]
       ELSE new[k]]

Spread(old, new) ==
  [k \in DOMAIN old \cup DOMAIN new |-> IF k \in DOMAIN new THEN new[k] ELSE old[k]]

\* const newProjectEntry: ProjectEntry = {...}  (lines 200-205)
NewProjectEntry(label, proj) ==
  [label |-> label,
   category |-> Get(OrElse(proj.category, Some("UNKNOWN"))),
   subCategory |-> proj.subCategory,
   link |-> proj.website]

----------------------------------------------------------------------------
\* The files the builder may find

\* Number of project files in registry/projects
MaxFiles == 2

\* Number of consecutive runs of the tool
MaxRuns == 2

ScriptA == [name |-> "pool", scriptHash |-> H1Upper, purpose |-> Some("SPEND"),
            type |-> None, plutusVersion |-> None]
ScriptB == [name |-> "order", scriptHash |-> H1, purpose |-> None,
            type |-> Some("PLUTUS"), plutusVersion |-> Some(1)]
ScriptC == [name |-> "pool", scriptHash |-> HLong, purpose |-> Some("SPEND"),
            type |-> None, plutusVersion |-> None]
ScriptD == [name |-> "mint", scriptHash |-> H2, purpose |-> Some("MINT"),
            type |-> Some("NATIVE"), plutusVersion |-> None]
ScriptE == [name |-> "draft", scriptHash |-> <<>>, purpose |-> None,
            type |-> None, plutusVersion |-> None]
ScriptF == [name |-> "mint", scriptHash |-> H2, purpose |-> Some("MINT"),
            type |-> Some("PLUTUS"), plutusVersion |-> Some(2)]

\* A scriptHash that is a JSON number: truthy, and without toLowerCase
NotAString == <<[c |-> "number", n |-> 1]>>
IsString(scriptHash) == scriptHash # NotAString

ScriptG == [name |-> "broken", scriptHash |-> NotAString, purpose |-> None,
            type |-> None, plutusVersion |-> None]

\* The content of a project file that JSON.parse rejects
NotJson == [garbage |-> TRUE]
IsJson(content) == "scripts" \in DOMAIN content

ProjectPool ==
  { [label |-> <<"A", " ", "b">>, projectName |-> <<>>, category |-> None,
     subCategory |-> None, website |-> None, scripts |-> <<ScriptA>>],
    [label |-> <<"C", "d">>, projectName |-> <<>>, category |-> Some("DEFI"),
     subCategory |-> Some("DEX"), website |-> Some("https://cd"),
     scripts |-> <<ScriptB, ScriptC>>],
    [label |-> <<>>, projectName |-> <<"a", "B", ".">>, category |-> Some("DEFI"),
     subCategory |-> None, website |-> None, scripts |-> <<ScriptD, ScriptE>>],
    [label |-> <<>>, projectName |-> <<>>, category |-> None,
     subCategory |-> None, website |-> None, scripts |-> <<ScriptA>>],
    [label |-> <<"a", "_", "_", "b">>, projectName |-> <<"C", "d">>, category |-> None,
     subCategory |-> None, website |-> None, scripts |-> <<>>],
    [label |-> <<"E", "f">>, projectName |-> <<>>, category |-> None,
     subCategory |-> None, website |-> None, scripts |-> <<ScriptF, ScriptA, ScriptG>>],
    NotJson }

AbsentIndex ==
  [kind |-> "absent", generatedAt |-> 0, scriptCount |-> 0, projectCount |-> 0,
   scripts |-> <<>>, projects |-> <<>>]

\* An index an earlier run of the builder wrote
ClassifiedIndex ==
  [kind |-> "ok", generatedAt |-> 0, scriptCount |-> 1, projectCount |-> 1,
   scripts |-> (H1 :> [projectId |-> <<"a", "-", "b">>, name |-> "pool",
                       purpose |-> Some("SPEND"), type |-> Some("PLUTUS"),
                       plutusVersion |-> Some(1)]),
   projects |-> (<<"a", "-", "b">> :> [label |-> <<"A", " ", "b">>, category |-> "DEFI",
                                        subCategory |-> Some("DEX"), link |-> None])]

\* An index of an earlier import (entries without plutusVersion, one of them
\* under a 112-character key) whose counts were not kept up to date
StaleIndex ==
  [kind |-> "ok", generatedAt |-> 0, scriptCount |-> 5, projectCount |-> 0,
   scripts |-> (H2 :> [projectId |-> <<"o", "l", "d">>, name |-> "legacy",
                       purpose |-> Some("MINT"), type |-> Some("PLUTUS"),
                       plutusVersion |-> None])
               @@ (HLongKey :> [projectId |-> <<"o", "l", "d">>, name |-> "address",
                                purpose |-> Some("SPEND"), type |-> Some("PLUTUS"),
                                plutusVersion |-> None]),
   projects |-> (<<"o", "l", "d">> :> [label |-> <<"O", "l", "d">>, category |-> "UNKNOWN",
                                        subCategory |-> None, link |-> None])]

\* A file that JSON.parse rejects
GarbageIndex ==
  [kind |-> "garbage", generatedAt |-> 0, scriptCount |-> 0, projectCount |-> 0,
   scripts |-> <<>>, projects |-> <<>>]

\* A JSON document with scripts and projects but no metadata object
NoMetadataIndex ==
  [kind |-> "nometa", generatedAt |-> 0, scriptCount |-> 0, projectCount |-> 0,
   scripts |-> (H1 :> [projectId |-> <<"c", "d">>, name |-> "order",
                       purpose |-> Some("SPEND"), type |-> Some("PLUTUS"),
                       plutusVersion |-> Some(1)]),
   projects |-> (<<"o", "l", "d">> :> [label |-> <<"O", "l", "d">>, category |-> "UNKNOWN",
                                        subCategory |-> None, link |-> None])]

IndexPool == {AbsentIndex, ClassifiedIndex, StaleIndex, GarbageIndex, NoMetadataIndex}

\* The sequences of at most n elements of S without repetition: the files of
\* a directory, each with a content of its own
RECURSIVE SeqsUpTo(_, _)
SeqsUpTo(S, n) ==
  IF n = 0 THEN {<<>>}
  ELSE LET shorter == SeqsUpTo(S, n - 1) IN
       shorter \cup {Append(p[1], p[2]) :
                      p \in {p \in {r \in shorter : Len(r) = n - 1} \X S :
                               p[2] \notin Range(p[1])}}

NoProject == [label |-> <<>>, projectName |-> <<>>, category |-> None,
              subCategory |-> None, website |-> None, scripts |-> <<>>]
NoIndex == [generatedAt |-> 0, scriptCount |-> 0, projectCount |-> 0,
            scripts |-> <<>>, projects |-> <<>>]
NoStart == [indexFile |-> AbsentIndex, outputDir |-> FALSE, projectFiles |-> <<>>]
NoPrev == [ran |-> FALSE, dryRun |-> FALSE, dbAvailable |-> FALSE, added |-> 0,
           updated |-> 0, unchanged |-> 0, lookupCount |-> 0, filesToUpdate |-> 0,
           totalScripts |-> 0, totalProjects |-> 0,
           interrupted |-> FALSE, atStart |-> NoStart]

IdleRun ==
  /\ pc = "idle"
  /\ dryRun = FALSE /\ dbAvailable = FALSE /\ dbPool = "null"
  /\ scripts = <<>> /\ projects = <<>>
  /\ added = 0 /\ updated = 0 /\ unchanged = 0 /\ lookupCount = 0
  /\ projectFilesToUpdate = <<>>
  /\ fileIdx = 0 /\ scriptIdx = 0 /\ project = NoProject /\ projectId = <<>>
  /\ projectModified = FALSE /\ writeIdx = 0 /\ index = NoIndex
  /\ exitCode = None
  /\ runNo = 0
  /\ atStart = [indexFile |-> indexFile, outputDir |-> outputDir,
                projectFiles |-> projectFiles]
  /\ log = <<>> /\ prev = NoPrev /\ indexWrites = 0
  /\ projLog = <<>>

\* The lookup source: not configured, configured and live, configured and failing
LookupSources == {<<FALSE, "live">>, <<TRUE, "live">>, <<TRUE, "failing">>}

Init ==
  /\ indexFile \in IndexPool
  /\ outputDir \in IF indexFile.kind = "absent" THEN BOOLEAN ELSE {TRUE}
  /\ projectsDir \in BOOLEAN
  /\ projectFiles \in IF projectsDir THEN SeqsUpTo(ProjectPool, MaxFiles) ELSE {<<>>}
  /\ \E source \in LookupSources : dbEnv = source[1] /\ dbSync = source[2]
  /\ IdleRun
  /\ normPc = "off" /\ normIn = <<>> /\ normOut = <<>>

----------------------------------------------------------------------------
\* generateScriptIndex (scripts/generate-script-index.ts)

\* Lines 153-162: existingIndex is assigned when the file exists and JSON.parse
\* returns; the read of metadata.scriptCount that follows may throw into the
\* same catch, after the assignment.
Parsed(file) == file.kind \in {"ok", "nometa"}

\* existingIndex?.scripts || {}  and  existingIndex?.projects || {}
LoadScripts_startFresh(file) == <<>>

LoadScripts(file) == IF Parsed(file) THEN file.scripts ELSE <<>>

LoadProjects(file) == IF Parsed(file) THEN file.projects ELSE <<>>

\* What the summary of lines 335-342 prints, with the mode of the run
Summary ==
  [ran |-> TRUE, dryRun |-> dryRun, dbAvailable |-> dbAvailable, added |-> added,
   updated |-> updated, unchanged |-> unchanged, lookupCount |-> lookupCount,
   filesToUpdate |-> Len(projectFilesToUpdate),
   totalScripts |-> index.scriptCount, totalProjects |-> index.projectCount,
   interrupted |-> FALSE, atStart |-> NoStart]

\* Lines 146-182: initDb, load of the existing index, the counters, and the
\* exit when registry/projects does not exist
StartRun_noDirCheck(dry, env) ==
  /\ pc \in {"idle", "done", "exited"}
  /\ runNo < MaxRuns
  /\ pc = "idle" \/ ~prev.interrupted
  /\ dryRun' = dry
  /\ dbAvailable' = env
  /\ dbPool' = IF env THEN "open" ELSE "null"
  /\ scripts' = LoadScripts(indexFile)
  /\ projects' = LoadProjects(indexFile)
  /\ added' = 0 /\ updated' = 0 /\ unchanged' = 0 /\ lookupCount' = 0
  /\ projectFilesToUpdate' = <<>>
  /\ fileIdx' = 1 /\ scriptIdx' = 0
  /\ project' = NoProject /\ projectId' = <<>> /\ projectModified' = FALSE
  /\ writeIdx' = 0 /\ index' = NoIndex
  /\ pc' = "files"
  /\ exitCode' = None
  /\ runNo' = runNo + 1
  /\ atStart' = [indexFile |-> indexFile, outputDir |-> outputDir,
                 projectFiles |-> projectFiles]
  /\ log' = <<>>
  /\ prev' = IF pc = "done" THEN Summary ELSE IF pc = "idle" THEN prev ELSE NoPrev
  /\ indexWrites' = 0
  /\ projLog' = <<>>
  /\ UNCHANGED <<diskVars, envVars, normVars>>

StartRun(dry, env) ==
  /\ pc \in {"idle", "done", "exited"}
  /\ runNo < MaxRuns
  /\ pc = "idle" \/ ~prev.interrupted
  /\ dryRun' = dry
  /\ dbAvailable' = env
  /\ dbPool' = IF env THEN "open" ELSE "null"
  /\ scripts' = LoadScripts(indexFile)
  /\ projects' = LoadProjects(indexFile)
  /\ added' = 0 /\ updated' = 0 /\ unchanged' = 0 /\ lookupCount' = 0
  /\ projectFilesToUpdate' = <<>>
  /\ fileIdx' = 1 /\ scriptIdx' = 0
  /\ project' = NoProject /\ projectId' = <<>> /\ projectModified' = FALSE
  /\ writeIdx' = 0 /\ index' = NoIndex
  /\ pc' = IF projectsDir THEN "files" ELSE "exited"
  /\ exitCode' = IF projectsDir THEN None ELSE Some(1)
  /\ runNo' = runNo + 1
  /\ atStart' = [indexFile |-> indexFile, outputDir |-> outputDir,
                 projectFiles |-> projectFiles]
  /\ log' = <<>>
  /\ prev' = IF pc = "done" THEN Summary ELSE IF pc = "idle" THEN prev ELSE NoPrev
  /\ indexWrites' = 0
  /\ projLog' = <<>>
  /\ UNCHANGED <<diskVars, envVars, normVars>>

\* Lines 186-218: read and parse the file, upsert the project entry; an error
\* of readFileSync or JSON.parse ends the iteration in the catch of line 304
ReadProject ==
  /\ pc = "files"
  /\ fileIdx <= Len(projectFiles)
  /\ LET proj == projectFiles[fileIdx]
         projectLabel == IF proj.label # <<>> THEN proj.label ELSE proj.projectName
         pid == toKebabCase(projectLabel)
     IN IF ~IsJson(proj)
          THEN /\ fileIdx' = fileIdx + 1
               /\ UNCHANGED <<pc, projects, scriptIdx, project, projectId,
                              projectModified, projLog>>
        ELSE IF projectLabel = <<>>
          THEN /\ fileIdx' = fileIdx + 1
               /\ UNCHANGED <<pc, projects, scriptIdx, project, projectId,
                              projectModified, projLog>>
          ELSE /\ projects' =
                    IF pid \notin DOMAIN projects
                      THEN Put(projects, pid, NewProjectEntry(projectLabel, proj))
                      ELSE Put(projects, pid,
                               Spread(projects[pid], NewProjectEntry(projectLabel, proj)))
               /\ projLog' = Append(projLog,
                    [file |-> fileIdx, pid |-> pid, prior |-> EntryAt(projects, pid),
                     added |-> pid \notin DOMAIN projects])
               /\ IF Len(proj.scripts) = 0
                    THEN /\ fileIdx' = fileIdx + 1
                         /\ UNCHANGED <<pc, scriptIdx, project, projectId, projectModified>>
                    ELSE /\ pc' = "scripts"
                         /\ scriptIdx' = 1
                         /\ project' = proj
                         /\ projectId' = pid
                         /\ projectModified' = FALSE
                         /\ UNCHANGED fileIdx
  /\ UNCHANGED <<dryRun, dbAvailable, dbPool, scripts, added, updated, unchanged,
                 lookupCount, projectFilesToUpdate, writeIdx, index>>
  /\ UNCHANGED <<diskVars, envVars, exitCode, obsVars, normVars>>

\* Lines 220-298: one iteration of the loop over project.scripts; when
\* script.scriptHash has no toLowerCase, line 225 throws into the catch of
\* line 304 and the loop of line 184 goes on with the next file
ProcessScript_countEmptyHash ==
  /\ pc = "scripts"
  /\ scriptIdx <= Len(project.scripts)
  /\ LET script == project.scripts[scriptIdx] IN
     IF script.scriptHash = <<>>
       THEN /\ scriptIdx' = scriptIdx + 1
            /\ unchanged' = unchanged + 1
            /\ UNCHANGED <<pc, fileIdx, projectId, scripts, added, updated,
                           lookupCount, project, projectModified, log>>
     ELSE IF ~IsString(script.scriptHash)
       THEN /\ pc' = "files"
            /\ fileIdx' = fileIdx + 1
            /\ scriptIdx' = 0 /\ project' = NoProject /\ projectId' = <<>>
            /\ projectModified' = FALSE
            /\ UNCHANGED <<scripts, added, updated, unchanged, lookupCount, log>>
       ELSE LET hash == HashKey(script.scriptHash)
                existing == EntryAt(scripts, hash)
                r == Resolve(script, existing, hash, dbAvailable, dbPool)
                newEntry == NewEntry(projectId, r.script)
                outcome == Diff(existing, newEntry)
            IN /\ scripts' = IF outcome = "unchanged" THEN scripts
                             ELSE Put(scripts, hash, newEntry)
               /\ added' = added + (IF outcome = "added" THEN 1 ELSE 0)
               /\ updated' = updated + (IF outcome = "updated" THEN 1 ELSE 0)
               /\ unchanged' = unchanged + (IF outcome = "unchanged" THEN 1 ELSE 0)
               /\ lookupCount' = lookupCount + r.lookups
               /\ project' = [project EXCEPT !.scripts[scriptIdx] = r.script]
               /\ projectModified' = (projectModified \/ r.modified)
               /\ log' = Append(log,
                    [file |-> fileIdx, idx |-> scriptIdx, script |-> script,
                     key |-> hash, existing |-> existing, entry |-> newEntry,
                     outcome |-> outcome, lookups |-> r.lookups, source |-> r.source,
                     after |-> r.script, modified |-> r.modified,
                     normPresent |-> normalizeHash(script.scriptHash) \in DOMAIN scripts])
               /\ scriptIdx' = scriptIdx + 1
               /\ UNCHANGED <<pc, fileIdx, projectId>>
  /\ UNCHANGED <<dryRun, dbAvailable, dbPool, projects, projectFilesToUpdate,
                 writeIdx, index>>
  /\ UNCHANGED <<diskVars, envVars, exitCode, runNo, atStart, prev, indexWrites,
                 projLog, normVars>>

ProcessScript ==
  /\ pc = "scripts"
  /\ scriptIdx <= Len(project.scripts)
  /\ LET script == project.scripts[scriptIdx] IN
     IF script.scriptHash = <<>>
       THEN /\ scriptIdx' = scriptIdx + 1
            /\ UNCHANGED <<pc, fileIdx, projectId, scripts, added, updated, unchanged,
                           lookupCount, project, projectModified, log>>
     ELSE IF ~IsString(script.scriptHash)
       THEN /\ pc' = "files"
            /\ fileIdx' = fileIdx + 1
            /\ scriptIdx' = 0 /\ project' = NoProject /\ projectId' = <<>>
            /\ projectModified' = FALSE
            /\ UNCHANGED <<scripts, added, updated, unchanged, lookupCount, log>>
       ELSE LET hash == HashKey(script.scriptHash)
                existing == EntryAt(scripts, hash)
                r == Resolve(script, existing, hash, dbAvailable, dbPool)
                newEntry == NewEntry(projectId, r.script)
                outcome == Diff(existing, newEntry)
            IN /\ scripts' = IF outcome = "unchanged" THEN scripts
                             ELSE Put(scripts, hash, newEntry)
               /\ added' = added + (IF outcome = "added" THEN 1 ELSE 0)
               /\ updated' = updated + (IF outcome = "updated" THEN 1 ELSE 0)
               /\ unchanged' = unchanged + (IF outcome = "unchanged" THEN 1 ELSE 0)
               /\ lookupCount' = lookupCount + r.lookups
               /\ project' = [project EXCEPT !.scripts[scriptIdx] = r.script]
               /\ projectModified' = (projectModified \/ r.modified)
               /\ log' = Append(log,
                    [file |-> fileIdx, idx |-> scriptIdx, script |-> script,
                     key |-> hash, existing |-> existing, entry |-> newEntry,
                     outcome |-> outcome, lookups |-> r.lookups, source |-> r.source,
                     after |-> r.script, modified |-> r.modified,
                     normPresent |-> normalizeHash(script.scriptHash) \in DOMAIN scripts])
               /\ scriptIdx' = scriptIdx + 1
               /\ UNCHANGED <<pc, fileIdx, projectId>>
  /\ UNCHANGED <<dryRun, dbAvailable, dbPool, projects, projectFilesToUpdate,
                 writeIdx, index>>
  /\ UNCHANGED <<diskVars, envVars, exitCode, runNo, atStart, prev, indexWrites,
                 projLog, normVars>>

\* Lines 300-303: stage the project file when a script of it was filled
EndProject_stageOriginal ==
  /\ pc = "scripts"
  /\ scriptIdx > Len(project.scripts)
  /\ projectFilesToUpdate' =
       IF projectModified
         THEN Append(projectFilesToUpdate,
                     [path |-> fileIdx, project |-> projectFiles[fileIdx]])
         ELSE projectFilesToUpdate
  /\ fileIdx' = fileIdx + 1
  /\ pc' = "files"
  /\ scriptIdx' = 0 /\ project' = NoProject /\ projectId' = <<>>
  /\ projectModified' = FALSE
  /\ UNCHANGED <<dryRun, dbAvailable, dbPool, scripts, projects, added, updated,
                 unchanged, lookupCount, writeIdx, index>>
  /\ UNCHANGED <<diskVars, envVars, exitCode, obsVars, projLog, normVars>>

EndProject ==
  /\ pc = "scripts"
  /\ scriptIdx > Len(project.scripts)
  /\ projectFilesToUpdate' =
       IF projectModified
         THEN Append(projectFilesToUpdate, [path |-> fileIdx, project |-> project])
         ELSE projectFilesToUpdate
  /\ fileIdx' = fileIdx + 1
  /\ pc' = "files"
  /\ scriptIdx' = 0 /\ project' = NoProject /\ projectId' = <<>>
  /\ projectModified' = FALSE
  /\ UNCHANGED <<dryRun, dbAvailable, dbPool, scripts, projects, added, updated,
                 unchanged, lookupCount, writeIdx, index>>
  /\ UNCHANGED <<diskVars, envVars, exitCode, obsVars, projLog, normVars>>

\* Line 310: closeDb
CloseDb ==
  /\ pc = "files"
  /\ fileIdx > Len(projectFiles)
  /\ dbPool' = IF dbPool = "open" THEN "ended" ELSE dbPool
  /\ pc' = "writeProjects"
  /\ writeIdx' = 1
  /\ UNCHANGED <<dryRun, dbAvailable, scripts, projects, added, updated, unchanged,
                 lookupCount, projectFilesToUpdate, fileIdx, scriptIdx, project,
                 projectId, projectModified, index>>
  /\ UNCHANGED <<diskVars, envVars, exitCode, obsVars, projLog, normVars>>

\* Lines 313-318: one iteration of the loop that rewrites the staged project files
WriteProjectFile_evenInDryRun ==
  /\ pc = "writeProjects"
  /\ writeIdx <= Len(projectFilesToUpdate)
  /\ projectFiles' = [projectFiles EXCEPT ![projectFilesToUpdate[writeIdx].path] =
                                             projectFilesToUpdate[writeIdx].project]
  /\ writeIdx' = writeIdx + 1
  /\ UNCHANGED <<indexFile, outputDir>>
  /\ UNCHANGED <<pc, dryRun, dbAvailable, dbPool, scripts, projects, added, updated,
                 unchanged, lookupCount, projectFilesToUpdate, fileIdx, scriptIdx,
                 project, projectId, projectModified, index>>
  /\ UNCHANGED <<envVars, exitCode, obsVars, projLog, normVars>>

WriteProjectFile ==
  /\ pc = "writeProjects"
  /\ ~dryRun
  /\ writeIdx <= Len(projectFilesToUpdate)
  /\ projectFiles' = [projectFiles EXCEPT ![projectFilesToUpdate[writeIdx].path] =
                                             projectFilesToUpdate[writeIdx].project]
  /\ writeIdx' = writeIdx + 1
  /\ UNCHANGED <<indexFile, outputDir>>
  /\ UNCHANGED <<pc, dryRun, dbAvailable, dbPool, scripts, projects, added, updated,
                 unchanged, lookupCount, projectFilesToUpdate, fileIdx, scriptIdx,
                 project, projectId, projectModified, index>>
  /\ UNCHANGED <<envVars, exitCode, obsVars, projLog, normVars>>

\* Lines 323-332: the final index; now stands for new Date().toISOString()
BuildIndex_countProcessed(scriptMap, projectMap, now) ==
  [generatedAt |-> now,
   scriptCount |-> added + updated + unchanged,
   projectCount |-> Cardinality(DOMAIN projectMap),
   scripts |-> scriptMap, projects |-> projectMap]

BuildIndex_fromPass(scriptMap, projectMap, now) ==
  LET produced == {log[i].key : i \in 1..Len(log)} \cap DOMAIN scriptMap IN
  [generatedAt |-> now,
   scriptCount |-> Cardinality(produced),
   projectCount |-> Cardinality(DOMAIN projectMap),
   scripts |-> [k \in produced |-> scriptMap[k]], projects |-> projectMap]

BuildIndex(scriptMap, projectMap, now) ==
  [generatedAt |-> now,
   scriptCount |-> Cardinality(DOMAIN scriptMap),
   projectCount |-> Cardinality(DOMAIN projectMap),
   scripts |-> scriptMap, projects |-> projectMap]

Finalize_early ==
  /\ pc = "writeProjects"
  /\ index' = BuildIndex(scripts, projects, runNo)
  /\ pc' = "commit"
  /\ UNCHANGED <<dryRun, dbAvailable, dbPool, scripts, projects, added, updated,
                 unchanged, lookupCount, projectFilesToUpdate, fileIdx, scriptIdx,
                 project, projectId, projectModified, writeIdx>>
  /\ UNCHANGED <<diskVars, envVars, exitCode, obsVars, projLog, normVars>>

Finalize ==
  /\ pc = "writeProjects"
  /\ dryRun \/ writeIdx > Len(projectFilesToUpdate)
  /\ index' = BuildIndex(scripts, projects, runNo)
  /\ pc' = "commit"
  /\ UNCHANGED <<dryRun, dbAvailable, dbPool, scripts, projects, added, updated,
                 unchanged, lookupCount, projectFilesToUpdate, fileIdx, scriptIdx,
                 project, projectId, projectModified, writeIdx>>
  /\ UNCHANGED <<diskVars, envVars, exitCode, obsVars, projLog, normVars>>

\* Lines 344-354: the dry-run notice, or mkdir and the write of the index file;
\* the function returns and the process ends with exit code 0
Commit ==
  /\ pc = "commit"
  /\ IF dryRun
       THEN UNCHANGED <<indexFile, outputDir, indexWrites>>
       ELSE /\ outputDir' = TRUE
            /\ indexFile' = [kind |-> "ok", generatedAt |-> index.generatedAt,
                             scriptCount |-> index.scriptCount,
                             projectCount |-> index.projectCount,
                             scripts |-> index.scripts, projects |-> index.projects]
            /\ indexWrites' = indexWrites + 1
  /\ pc' = "done"
  /\ exitCode' = Some(0)
  /\ UNCHANGED projectFiles
  /\ UNCHANGED <<dryRun, dbAvailable, dbPool, scripts, projects, added, updated,
                 unchanged, lookupCount, projectFilesToUpdate, fileIdx, scriptIdx,
                 project, projectId, projectModified, writeIdx, index>>
  /\ UNCHANGED <<envVars, runNo, atStart, log, prev, projLog, normVars>>

\* The process is terminated from outside while generateScriptIndex runs: no
\* handler runs, the memory of the process is gone and the files stay as they
\* are.  At line 348-352 the termination may fall between mkdirSync and
\* writeFileSync.  A termination before the first write (line 316) leaves
\* the files as found and the memory gone wherever it falls: the action takes
\* it at line 344, and takes the terminations after the first write at their
\* own position.  The first run of a behaviour may be terminated, and the run
\* that follows a terminated run is the last one of the behaviour.
Interrupt(afterMkdir) ==
  /\ pc \in {"writeProjects", "commit"}
  /\ pc = "commit" \/ projectFiles # atStart.projectFiles
  /\ afterMkdir => (pc = "commit" /\ ~dryRun /\ ~outputDir)
  /\ runNo = 1
  /\ outputDir' = IF pc = "commit" /\ ~dryRun /\ afterMkdir THEN TRUE ELSE outputDir
  /\ pc' = "idle"
  /\ dryRun' = FALSE /\ dbAvailable' = FALSE /\ dbPool' = "null"
  /\ scripts' = <<>> /\ projects' = <<>>
  /\ added' = 0 /\ updated' = 0 /\ unchanged' = 0 /\ lookupCount' = 0
  /\ projectFilesToUpdate' = <<>>
  /\ fileIdx' = 0 /\ scriptIdx' = 0 /\ project' = NoProject /\ projectId' = <<>>
  /\ projectModified' = FALSE /\ writeIdx' = 0 /\ index' = NoIndex
  /\ exitCode' = None
  /\ atStart' = [indexFile |-> indexFile, outputDir |-> outputDir',
                 projectFiles |-> projectFiles]
  /\ log' = <<>> /\ projLog' = <<>> /\ indexWrites' = 0
  /\ prev' = [NoPrev EXCEPT !.interrupted = TRUE, !.atStart = atStart]
  /\ UNCHANGED <<indexFile, projectFiles, envVars, runNo, normVars>>

Next ==
  \/ \E dry \in BOOLEAN : StartRun(dry, dbEnv)
  \/ ReadProject
  \/ ProcessScript
  \/ EndProject
  \/ CloseDb
  \/ WriteProjectFile
  \/ Finalize
  \/ Commit
  \/ \E afterMkdir \in BOOLEAN : Interrupt(afterMkdir)

Spec == Init /\ [][Next]_vars

----------------------------------------------------------------------------
\* The pass of generateScriptIndex (lines 164-307) as a function of the index
\* file and the directory entries it reads.  acc holds the maps, the counters,
\* the staged rewrites and the events of the script records processed.

PassInit(file) ==
  [scripts |-> LoadScripts(file), projects |-> LoadProjects(file),
   added |-> 0, updated |-> 0, unchanged |-> 0, lookupCount |-> 0,
   staged |-> <<>>, log |-> <<>>]

\* Lines 220-303 from script i on: the loop over proj.scripts, then the staging;
\* a throw leaves the loop and the staging through the catch of line 304
RECURSIVE ScriptsLoop(_, _, _, _, _, _, _, _)
ScriptsLoop(acc, path, pid, proj, modified, i, available, pool) ==
  IF i > Len(proj.scripts)
    THEN [acc EXCEPT !.staged =
            IF modified THEN Append(@, [path |-> path, project |-> proj]) ELSE @]
  ELSE LET script == proj.scripts[i] IN
    IF script.scriptHash = <<>>
      THEN ScriptsLoop(acc, path, pid, proj, modified, i + 1, available, pool)
    ELSE IF ~IsString(script.scriptHash)
      THEN acc
    ELSE LET hash == HashKey(script.scriptHash)
             existing == EntryAt(acc.scripts, hash)
             r == Resolve(script, existing, hash, available, pool)
             newEntry == NewEntry(pid, r.script)
             outcome == Diff(existing, newEntry)
             event == [file |-> path, idx |-> i, script |-> script,
                       key |-> hash, existing |-> existing, entry |-> newEntry,
                       outcome |-> outcome, lookups |-> r.lookups,
                       source |-> r.source, after |-> r.script,
                       modified |-> r.modified,
                       normPresent |->
                         normalizeHash(script.scriptHash) \in DOMAIN acc.scripts]
         IN ScriptsLoop(
              [acc EXCEPT
                 !.scripts = IF outcome = "unchanged" THEN @ ELSE Put(@, hash, newEntry),
                 !.added = @ + (IF outcome = "added" THEN 1 ELSE 0),
                 !.updated = @ + (IF outcome = "updated" THEN 1 ELSE 0),
                 !.unchanged = @ + (IF outcome = "unchanged" THEN 1 ELSE 0),
                 !.lookupCount = @ + r.lookups,
                 !.log = Append(@, event)],
              path, pid, [proj EXCEPT !.scripts[i] = r.script],
              modified \/ r.modified, i + 1, available, pool)

\* Lines 185-306: one iteration of the loop over the files
FileStep(acc, path, content, available, pool) ==
  IF ~IsJson(content) THEN acc
  ELSE LET projectLabel == IF content.label # <<>> THEN content.label
                           ELSE content.projectName
           pid == toKebabCase(projectLabel)
       IN IF projectLabel = <<>> THEN acc
          ELSE ScriptsLoop(
                 [acc EXCEPT !.projects =
                    IF pid \notin DOMAIN @
                      THEN Put(@, pid, NewProjectEntry(projectLabel, content))
                      ELSE Put(@, pid, Spread(@[pid], NewProjectEntry(projectLabel, content)))],
                 path, pid, content, FALSE, 1, available, pool)

\* Lines 184-307: the loop over the directory entries [path, content]
RECURSIVE PassOn(_, _, _, _)
PassOn(acc, entries, available, pool) ==
  IF Len(entries) = 0 THEN acc
  ELSE PassOn(FileStep(acc, entries[1].path, entries[1].content, available, pool),
              Tail(entries), available, pool)

\* readdirSync(PROJECTS_DIR): the files with their position as path
DirEntries(files) == [i \in 1..Len(files) |-> [path |-> i, content |-> files[i]]]

\* Lines 151-307 for a given result of initDb
RunPass(file, entries, available) ==
  PassOn(PassInit(file), entries, available, IF available THEN "open" ELSE "null")

\* Lines 313-318: the project files after the staged rewrites
RECURSIVE Rewritten(_, _)
Rewritten(files, staged) ==
  IF Len(staged) = 0 THEN files
  ELSE Rewritten([files EXCEPT ![staged[1].path] = staged[1].project], Tail(staged))

----------------------------------------------------------------------------
\* The first pass of importMissingScripts (import-missing-scripts.ts, lines
\* 133-145) over the keys hashes of the loaded scripts map: an entry under a
\* 112-character key is copied to its normalized key when that key is free
RECURSIVE NormalizeExisting(_, _)
NormalizeExisting(scriptMap, hashes) ==
  IF hashes = {} THEN scriptMap
  ELSE LET hash == CHOOSE h \in hashes : TRUE
           normalizedHash == normalizeHash(hash)
       IN NormalizeExisting(
            IF Length(hash) = FullAddressLen /\ normalizedHash \notin DOMAIN scriptMap
              THEN Put(scriptMap, normalizedHash, scriptMap[hash])
              ELSE scriptMap,
            hashes \ {hash})

----------------------------------------------------------------------------

\* The hash normalizer applied twice to a drawn hash

\* Run lengths are drawn within MaxSlack of 0, 56 and 112
MaxSlack == 1

HexSample == {"a", "A", "F", "0"}

Near(n) == {k \in (n - MaxSlack)..(n + MaxSlack) : k >= 0}

HashInputs ==
  {Concat(Rep(c1, n1), Rep(c2, n2)) :
     c1 \in HexSample, c2 \in HexSample,
     n1 \in Near(0) \cup Near(PaymentCredLen) \cup Near(FullAddressLen),
     n2 \in Near(0) \cup Near(PaymentCredLen)}

InitNorm ==
  /\ indexFile = AbsentIndex /\ outputDir = FALSE /\ projectFiles = <<>>
  /\ projectsDir = TRUE /\ dbEnv = FALSE /\ dbSync = "live"
  /\ IdleRun
  /\ normPc = "drawn" /\ normIn \in HashInputs /\ normOut = <<>>

NormalizeOnce ==
  /\ normPc = "drawn"
  /\ normOut' = <<normalizeHash(normIn)>>
  /\ normPc' = "once"
  /\ UNCHANGED <<normIn, diskVars, envVars, runVars, exitCode, obsVars, projLog>>

NormalizeAgain ==
  /\ normPc = "once"
  /\ normOut' = Append(normOut, normalizeHash(normOut[1]))
  /\ normPc' = "twice"
  /\ UNCHANGED <<normIn, diskVars, envVars, runVars, exitCode, obsVars, projLog>>

NextNorm == NormalizeOnce \/ NormalizeAgain

SpecNorm == InitNorm /\ [][NextNorm]_vars

----------------------------------------------------------------------------
\* Properties

Events == {log[i] : i \in 1..Len(log)}

\* The run has loaded the index and not yet returned, or has just returned
InRun == pc # "idle"

\* The pass over the project files is over
PassOver == pc \in {"writeProjects", "commit", "done"}

\* The keys the script records processed so far by this run produced
KeysProduced == {e.key : e \in Events}

\* C1 (idempotence): when a commit-mode run is followed by another run on the
\* files it left, with the same lookup configuration, the second run reports
\* added = 0 and updated = 0.
C1_SecondRunChangesNothing ==
  (pc = "done" /\ prev.ran /\ ~prev.dryRun /\ prev.dbAvailable = dbAvailable)
    => (added = 0 /\ updated = 0)

\* C2 (no data loss on merge): during and after a run every key of the loaded
\* scripts and projects maps is still in the maps, an entry whose key no script
\* record of the pass produced is unchanged, and the same holds of the index
\* file a commit-mode run wrote.
C2_NoDataLoss ==
  InRun =>
    /\ DOMAIN atStart.indexFile.scripts \subseteq DOMAIN scripts
    /\ DOMAIN atStart.indexFile.projects \subseteq DOMAIN projects
    /\ \A k \in DOMAIN atStart.indexFile.scripts \ KeysProduced :
         scripts[k] = atStart.indexFile.scripts[k]
    /\ (pc = "done" /\ ~dryRun) =>
         /\ DOMAIN atStart.indexFile.scripts \subseteq DOMAIN indexFile.scripts
         /\ DOMAIN atStart.indexFile.projects \subseteq DOMAIN indexFile.projects
         /\ \A k \in DOMAIN atStart.indexFile.scripts \ KeysProduced :
              indexFile.scripts[k] = atStart.indexFile.scripts[k]

\* A commit-mode run that added an entry has kept a loaded entry whose key no
\* record of the pass produced.
C2_Witness ==
  /\ pc = "done" /\ ~dryRun /\ added > 0
  /\ DOMAIN atStart.indexFile.scripts \ KeysProduced # {}

\* C3 (dry-run purity): a dry run leaves the index file, the output directory
\* and every project file as it found them, and the summary it reports is the
\* summary the commit-mode run that follows it on the same files reports.
C3_DryRunPurity ==
  /\ (InRun /\ dryRun) =>
       /\ indexFile = atStart.indexFile
       /\ outputDir = atStart.outputDir
       /\ projectFiles = atStart.projectFiles
  /\ (pc = "done" /\ prev.ran /\ prev.dryRun /\ ~dryRun
        /\ prev.dbAvailable = dbAvailable) =>
       /\ added = prev.added
       /\ updated = prev.updated
       /\ unchanged = prev.unchanged
       /\ Len(projectFilesToUpdate) = prev.filesToUpdate
       /\ index.scriptCount = prev.totalScripts
       /\ index.projectCount = prev.totalProjects

\* A commit-mode run that changed the index and rewrote a project file follows
\* a dry run with the same lookup configuration.
C3_Witness ==
  /\ pc = "done" /\ prev.ran /\ prev.dryRun /\ ~dryRun
  /\ prev.dbAvailable = dbAvailable
  /\ added + updated > 0
  /\ Len(projectFilesToUpdate) > 0
  /\ projectFiles # atStart.projectFiles

\* C4 (112-character hash): a script record whose hash has 112 characters,
\* processed when the map has no entry under the lower-cased first 56
\* characters, is counted as added and stored under that 56-character key, and
\* the run stores no entry under a 112-character key.
C4_LongHashStoredTruncated ==
  /\ \A e \in Events :
       (Length(e.script.scriptHash) = FullAddressLen /\ ~e.normPresent) =>
         /\ e.outcome = "added"
         /\ e.key = normalizeHash(e.script.scriptHash)
         /\ e.key \in DOMAIN scripts
  /\ InRun =>
       \A k \in DOMAIN scripts \ DOMAIN atStart.indexFile.scripts :
         Length(k) # FullAddressLen

\* C5 (normalization convergence): the normalizer maps a 112-character hash to
\* its first 56 characters lower-cased and a hash of any other length to the
\* hash lower-cased, and maps its own result to itself.
C5_NormalizeConverges ==
  /\ normPc \in {"once", "twice"} =>
       LET n == IF Length(normIn) = FullAddressLen THEN PaymentCredLen
                ELSE Length(normIn)
       IN /\ Length(normOut[1]) = n
          /\ \A i \in 1..n : CharAt(normOut[1], i) = ToLowerChar(CharAt(normIn, i))
  /\ normPc = "twice" => normOut[2] = normOut[1]

\* The normalizer was applied twice to a 112-character hash with upper-case
\* characters in its first half.
C5_Witness ==
  /\ normPc = "twice"
  /\ Length(normIn) = FullAddressLen
  /\ normOut[1] # HashSlice0(normIn, PaymentCredLen)

\* The event is the last one of the run so far for its key
LastForKey(i) == \A j \in (i + 1)..Len(log) : log[j].key # log[i].key

\* C6 (one entry per normalized hash, last writer wins): the scripts map never
\* holds two keys with the same normalized hash, and once the pass is over the
\* entry under a normalized hash is the one derived from the last record
\* processed with that normalized hash.
C6_OneEntryPerNormalizedHash ==
  InRun =>
    /\ \A k1, k2 \in DOMAIN scripts :
         normalizeHash(k1) = normalizeHash(k2) => k1 = k2
    /\ PassOver =>
         \A i \in 1..Len(log) :
           (\A j \in (i + 1)..Len(log) :
              normalizeHash(log[j].script.scriptHash)
                # normalizeHash(log[i].script.scriptHash))
           => /\ normalizeHash(log[i].script.scriptHash) \in DOMAIN scripts
              /\ scripts[normalizeHash(log[i].script.scriptHash)] = log[i].entry

\* C7 (metadata consistency): in an index file written by a run, scriptCount
\* is the number of keys of scripts and projectCount the number of keys of
\* projects.
C7_MetadataConsistent ==
  indexFile.generatedAt >= 1 =>
    /\ indexFile.scriptCount = Cardinality(DOMAIN indexFile.scripts)
    /\ indexFile.projectCount = Cardinality(DOMAIN indexFile.projects)

\* A run has committed an index after loading one whose counts were wrong.
C7_Witness ==
  /\ pc = "done" /\ ~dryRun
  /\ indexFile.generatedAt >= 1
  /\ atStart.indexFile.kind = "ok"
  /\ atStart.indexFile.scriptCount # Cardinality(DOMAIN atStart.indexFile.scripts)
  /\ atStart.indexFile.projectCount # Cardinality(DOMAIN atStart.indexFile.projects)
  /\ added > 0

\* Sum of the lookups of the events
RECURSIVE LookupsIn(_)
LookupsIn(events) ==
  IF Len(events) = 0 THEN 0 ELSE events[1].lookups + LookupsIn(Tail(events))

\* C8 (lookup precondition): a lookup is issued for a script record only if the
\* record lacks type or plutusVersion, the in-memory entry at its key does not
\* have both, and a lookup source is configured; at most one lookup is issued
\* per record; a record that carries both fields causes no lookup, is not
\* modified and does not mark its project modified.
C8_LookupPrecondition ==
  /\ \A e \in Events :
       /\ e.lookups \in {0, 1}
       /\ e.lookups = 1 =>
            /\ LacksInfo(e.script)
            /\ ~HasBoth(e.existing)
            /\ dbAvailable
       /\ ~LacksInfo(e.script) =>
            /\ e.lookups = 0
            /\ e.after = e.script
            /\ ~e.modified
  /\ lookupCount = LookupsIn(log)

\* In one run with a lookup source: a record with both fields was processed, a
\* lookup was issued for another, and a third found both fields in an entry
\* written earlier in the same run.
C8_Witness ==
  /\ dbAvailable
  /\ \E e \in Events : ~LacksInfo(e.script)
  /\ \E e \in Events : e.lookups = 1
  /\ \E e \in Events :
       /\ LacksInfo(e.script) /\ HasBoth(e.existing) /\ e.lookups = 0
       /\ e.key \notin DOMAIN atStart.indexFile.scripts

\* Reading, parsing or processing the content of a project file raises an error
FailsIn(content) ==
  \/ ~IsJson(content)
  \/ /\ IsJson(content)
     /\ (content.label # <<>> \/ content.projectName # <<>>)
     /\ \E i \in 1..Len(content.scripts) : ~IsString(content.scripts[i].scriptHash)

\* What C9 states of an event e for which prior is the PLUTUS / version 1 entry
\* at the record's key, with the record's projectId, name and purpose; the
\* project record is staged when no script of it raises an error.
IndexFallback(e, prior) ==
  ( /\ IsSome(prior)
    /\ Get(prior).type = Some("PLUTUS")
    /\ Get(prior).plutusVersion = Some(1)
    /\ Get(prior).projectId = e.entry.projectId
    /\ Get(prior).name = e.script.name
    /\ Get(prior).purpose = e.script.purpose
    /\ e.script.type = None
    /\ e.script.plutusVersion = None )
  => /\ e.lookups = 0
     /\ e.source = "index"
     /\ e.outcome = "unchanged"
     /\ e.after.type = Some("PLUTUS")
     /\ e.after.plutusVersion = Some(1)
     /\ (PassOver /\ ~FailsIn(atStart.projectFiles[e.file])) =>
          \E w \in 1..Len(projectFilesToUpdate) :
            /\ projectFilesToUpdate[w].path = e.file
            /\ projectFilesToUpdate[w].project.scripts[e.idx] = e.after
     /\ (pc = "done" /\ ~dryRun /\ ~FailsIn(atStart.projectFiles[e.file])) =>
          projectFiles[e.file].scripts[e.idx] = e.after

C10_IndexedWithoutClassification ==
  /\ ~dbAvailable =>
       \A i \in 1..Len(log) :
         ( /\ log[i].script.type = None
           /\ log[i].script.plutusVersion = None
           /\ ~HasBoth(log[i].existing) )
         => /\ log[i].entry.type = None
            /\ log[i].entry.plutusVersion = None
            /\ log[i].lookups = 0
            /\ ~log[i].modified
            /\ log[i].key \in DOMAIN scripts
            /\ LastForKey(i) => scripts[log[i].key] = log[i].entry
  /\ ( /\ pc = "done" /\ ~dryRun /\ ~dbAvailable
       /\ DOMAIN atStart.indexFile.scripts = {}
       /\ Len(log) = 1
       /\ log[1].script.type = None
       /\ log[1].script.plutusVersion = None )
     => /\ added = 1 /\ updated = 0 /\ unchanged = 0
        /\ indexFile.scriptCount = 1
        /\ DOMAIN indexFile.scripts = {log[1].key}
        /\ Length(log[1].key) = Length(log[1].script.scriptHash)
        /\ \A c \in 1..Length(log[1].key) :
             CharAt(log[1].key, c) = ToLowerChar(CharAt(log[1].script.scriptHash, c))
        /\ indexFile.scripts[log[1].key].type = None
        /\ indexFile.scripts[log[1].key].plutusVersion = None
        /\ projectFilesToUpdate = <<>>
        /\ projectFiles = atStart.projectFiles

\* The scenario of C10: no index, one record with an upper-case 56-character
\* hash and purpose SPEND, no lookup source, commit mode.
C10_Witness ==
  /\ pc = "done" /\ ~dryRun /\ ~dbAvailable
  /\ atStart.indexFile.kind = "absent"
  /\ Len(log) = 1
  /\ log[1].script.scriptHash = Rep("A", PaymentCredLen)
  /\ log[1].script.purpose = Some("SPEND")
  /\ log[1].script.type = None /\ log[1].script.plutusVersion = None
  /\ added = 1

\* The maps, counters and staged rewrites of the run are those of acc
SameOutcome(acc) ==
  /\ scripts = acc.scripts
  /\ projects = acc.projects
  /\ added = acc.added /\ updated = acc.updated /\ unchanged = acc.unchanged
  /\ projectFilesToUpdate = acc.staged

\* C11 (lookup failure is not fatal and equals no lookup source): in a run with
\* a lookup source whose every lookup fails, no lookup changes a record, and
\* the run does not exit with an error when the project directory exists, and
\* once the pass is over the scripts and projects maps, the three counts and
\* the staged rewrites are those of the pass over the same index file and
\* project files without a lookup source; the index file a commit-mode run
\* writes holds these maps.
C11_FailedLookupsAsNoSource ==
  (dbAvailable /\ dbSync = "failing") =>
    /\ \A e \in Events : e.lookups = 1 => (e.after = e.script /\ ~e.modified)
    /\ projectsDir => exitCode # Some(1)
    /\ PassOver =>
         SameOutcome(RunPass(atStart.indexFile, DirEntries(atStart.projectFiles), FALSE))
    /\ (pc = "done" /\ ~dryRun) =>
         LET r == RunPass(atStart.indexFile, DirEntries(atStart.projectFiles), FALSE)
         IN /\ indexFile.scripts = r.scripts
            /\ indexFile.projects = r.projects
            /\ projectFiles = Rewritten(atStart.projectFiles, r.staged)

\* A commit-mode run with a failing lookup source is over in which two lookups
\* failed in different ways.
C11_Witness ==
  /\ pc = "done" /\ ~dryRun /\ dbAvailable /\ dbSync = "failing"
  /\ \E e1, e2 \in Events :
       /\ e1.lookups = 1 /\ e2.lookups = 1
       /\ DbSyncRow(e1.key) # DbSyncRow(e2.key)

\* C12 (commit ordering): a run writes the index file at most once; while it
\* has not written it the index file is the one the run found; when it has
\* written it the run is in commit mode and over, and every staged project
\* record is on disk as staged; a commit-mode run that is over has written the
\* index file once; a dry run and a pass that is not over leave the project
\* files as found; after an interrupted run the index file is the one that run
\* found.
C12_CommitOrdering ==
  /\ indexWrites <= 1
  /\ (InRun /\ indexWrites = 0) => indexFile = atStart.indexFile
  /\ indexWrites = 1 =>
       /\ pc = "done" /\ ~dryRun
       /\ \A w \in 1..Len(projectFilesToUpdate) :
            projectFiles[projectFilesToUpdate[w].path] = projectFilesToUpdate[w].project
  /\ (pc = "done" /\ ~dryRun) => indexWrites = 1
  /\ (InRun /\ (dryRun \/ ~PassOver)) => projectFiles = atStart.projectFiles
  /\ (pc = "idle" /\ prev.interrupted) => indexFile = prev.atStart.indexFile

\* A run was interrupted after it rewrote a project record: the index file it
\* found, which held entries, is still on disk.
C12_Witness ==
  /\ pc = "idle" /\ prev.interrupted
  /\ projectFiles # prev.atStart.projectFiles
  /\ DOMAIN indexFile.scripts # {}

\* C13 (crash recovery): when a run was interrupted before it wrote the index
\* file, the commit-mode run that follows it with the same lookup source ends
\* with the scripts map, the projects map and the project files that the
\* uninterrupted pass and its rewrites produce from the files the interrupted
\* run found, and writes these maps to the index file.
C13_CrashRecovery ==
  (pc = "done" /\ ~dryRun /\ prev.interrupted) =>
    LET u == RunPass(prev.atStart.indexFile, DirEntries(prev.atStart.projectFiles),
                     dbAvailable)
    IN /\ scripts = u.scripts
       /\ projects = u.projects
       /\ projectFiles = Rewritten(prev.atStart.projectFiles, u.staged)
       /\ indexFile.scripts = u.scripts
       /\ indexFile.projects = u.projects

\* A commit-mode run is over that followed a run interrupted after it rewrote
\* one staged project record and before it rewrote another, which the run that
\* followed staged and rewrote.
C13_Witness ==
  /\ pc = "done" /\ ~dryRun /\ prev.interrupted
  /\ atStart.projectFiles # prev.atStart.projectFiles
  /\ Len(projectFilesToUpdate) > 0
  /\ projectFiles # atStart.projectFiles

\* The projectIds upserted so far by this run
PidsUpserted == {projLog[i].pid : i \in 1..Len(projLog)}

\* C14 (load of a bad index): when the index file is absent, is not parseable
\* or parses without a metadata object, the run does not exit with an error
\* and starts from empty maps: the scripts map holds only keys produced by the
\* script records of this pass and the projects map only projectIds upserted
\* by this pass, in memory and in the index file a commit-mode run writes.
C14_BadIndexStartsEmpty ==
  (InRun /\ atStart.indexFile.kind \in {"absent", "garbage", "nometa"}) =>
    /\ projectsDir => exitCode # Some(1)
    /\ DOMAIN scripts \subseteq KeysProduced
    /\ DOMAIN projects \subseteq PidsUpserted
    /\ (pc = "done" /\ ~dryRun) =>
         /\ DOMAIN indexFile.scripts \subseteq KeysProduced
         /\ DOMAIN indexFile.projects \subseteq PidsUpserted

\* The events of the files enumerated after file k
LaterEvents(events, k) == SelectSeq(events, LAMBDA e : e.file > k)

\* C15 (per-project failure isolation): when a project file raises an error the
\* run does not exit with an error, and once the pass is over the script
\* records of the files enumerated after the failing file have been processed
\* with the same prior entries, results and outcomes, and the same of these
\* files are staged with the same content, as in the pass over the directory
\* without the failing file.
C15_FailureIsolated ==
  /\ (InRun /\ projectsDir) => exitCode # Some(1)
  /\ PassOver =>
       \A k \in 1..Len(atStart.projectFiles) :
         FailsIn(atStart.projectFiles[k]) =>
           LET without == RunPass(atStart.indexFile,
                                  SelectSeq(DirEntries(atStart.projectFiles),
                                            LAMBDA d : d.path # k),
                                  dbAvailable)
           IN /\ LaterEvents(log, k) = LaterEvents(without.log, k)
              /\ SelectSeq(projectFilesToUpdate, LAMBDA w : w.path > k)
                   = SelectSeq(without.staged, LAMBDA w : w.path > k)

\* C16 (exit status and missing directory): when registry/projects does not
\* exist the run ends at the directory check with exit code 1 and leaves the
\* index file, the output directory and the project files as found; when it
\* exists no run ends with a non-zero exit code and a run that is over has
\* ended with exit code 0.
C16_ExitStatus ==
  /\ (InRun /\ ~projectsDir) =>
       /\ pc = "exited" /\ exitCode = Some(1)
       /\ indexFile = atStart.indexFile
       /\ outputDir = atStart.outputDir
       /\ projectFiles = atStart.projectFiles
       /\ indexWrites = 0
  /\ projectsDir =>
       /\ exitCode \in {None, Some(0)}
       /\ pc = "done" <=> exitCode = Some(0)

\* A run is over with exit code 0 in which one project file raised an error
\* and another was skipped or raised an error too.
C16_Witness ==
  /\ pc = "done" /\ exitCode = Some(0)
  /\ Len(atStart.projectFiles) = 2
  /\ FailsIn(atStart.projectFiles[1])
  /\ \/ FailsIn(atStart.projectFiles[2])
     \/ (atStart.projectFiles[2].label = <<>> /\ atStart.projectFiles[2].projectName = <<>>)

\* A commit-mode run is over that added and updated nothing and staged nothing
NoOpCommit ==
  /\ pc = "done" /\ ~dryRun
  /\ added = 0 /\ updated = 0
  /\ projectFilesToUpdate = <<>>

\* C17 as stated (no-op round trip): the index file a no-op commit-mode run
\* writes equals the index file it loaded.
C17_NoOpRoundTrip == NoOpCommit => indexFile = atStart.indexFile

\* C17 as amended: the index file a no-op commit-mode run writes has the
\* scripts map of the index file it loaded (empty when none was loaded), with
\* recomputed counts and a fresh generatedAt; when the preceding run of the
\* tool was a commit-mode run that ended, the file differs from the loaded one
\* in generatedAt only.
C17_NoOpKeepsContent ==
  NoOpCommit =>
    /\ indexFile.scripts = LoadScripts(atStart.indexFile)
    /\ indexFile.scriptCount = Cardinality(DOMAIN indexFile.scripts)
    /\ indexFile.projectCount = Cardinality(DOMAIN indexFile.projects)
    /\ indexFile.generatedAt = runNo
    /\ (prev.ran /\ ~prev.dryRun) =>
         /\ indexFile.generatedAt # atStart.indexFile.generatedAt
         /\ [indexFile EXCEPT !.generatedAt = 0]
              = [atStart.indexFile EXCEPT !.generatedAt = 0]

\* A no-op commit-mode run that found script records unchanged is over after a
\* commit-mode run that wrote the index file it loaded, which held an entry no
\* record of the pass produced.
C17_Witness ==
  /\ NoOpCommit
  /\ prev.ran /\ ~prev.dryRun
  /\ unchanged > 0
  /\ DOMAIN atStart.indexFile.scripts \ KeysProduced # {}

\* Number of events with the outcome
RECURSIVE CountOutcome(_, _)
CountOutcome(events, outcome) ==
  IF Len(events) = 0 THEN 0
  ELSE (IF events[1].outcome = outcome THEN 1 ELSE 0) + CountOutcome(Tail(events), outcome)

\* The five fields of the two entries are equal, an absent field being equal
\* to an absent field only
SameFiveFields(a, b) ==
  /\ a.projectId = b.projectId
  /\ a.name = b.name
  /\ (IsSome(a.purpose) <=> IsSome(b.purpose))
  /\ (IsSome(a.purpose) => Get(a.purpose) = Get(b.purpose))
  /\ (IsSome(a.type) <=> IsSome(b.type))
  /\ (IsSome(a.type) => Get(a.type) = Get(b.type))
  /\ (IsSome(a.plutusVersion) <=> IsSome(b.plutusVersion))
  /\ (IsSome(a.plutusVersion) => Get(a.plutusVersion) = Get(b.plutusVersion))

\* C18 (diff classification): every processed script record has exactly one of
\* the three outcomes: added when the scripts map had no entry at its key,
\* unchanged when the entry there equals the candidate in projectId, name,
\* purpose, type and plutusVersion, updated when it differs in one of them;
\* each counter is the number of records with its outcome; and after the last
\* record processed for a key the map holds the candidate when the outcome was
\* added or updated and the prior entry when it was unchanged.
C18_DiffClassification ==
  /\ \A e \in Events :
       /\ e.outcome \in {"added", "updated", "unchanged"}
       /\ e.outcome = "added" <=> ~IsSome(e.existing)
       /\ e.outcome = "unchanged" <=>
            (IsSome(e.existing) /\ SameFiveFields(Get(e.existing), e.entry))
       /\ e.outcome = "updated" <=>
            (IsSome(e.existing) /\ ~SameFiveFields(Get(e.existing), e.entry))
  /\ added = CountOutcome(log, "added")
  /\ updated = CountOutcome(log, "updated")
  /\ unchanged = CountOutcome(log, "unchanged")
  /\ \A i \in 1..Len(log) :
       LastForKey(i) =>
         /\ log[i].key \in DOMAIN scripts
         /\ scripts[log[i].key] =
              IF log[i].outcome = "unchanged" THEN Get(log[i].existing) ELSE log[i].entry

\* One run counted a record as added and a record as updated whose candidate
\* differs from the prior entry only in that its purpose is absent.
C18_Witness ==
  /\ \E e \in Events : e.outcome = "added"
  /\ \E e \in Events :
       /\ e.outcome = "updated"
       /\ SameFiveFields([Get(e.existing) EXCEPT !.purpose = None], e.entry)
       /\ IsSome(Get(e.existing).purpose)

\* The projects entry derived from a project record alone
DerivedFrom(record) ==
  [label |-> IF record.label # <<>> THEN record.label ELSE record.projectName,
   category |-> IF IsSome(record.category) THEN Get(record.category) ELSE "UNKNOWN",
   subCategory |-> record.subCategory,
   link |-> record.website]

\* C19 (project upsert is last-write-wins): after a project record with a label
\* (or legacy projectName) is processed, and until another record with the
\* same projectId is, the projects entry at its projectId has exactly the
\* label, category (UNKNOWN when the record has none), subCategory and link
\* (absent when the record has none) derived from the record, whatever the
\* prior entry held; the 'project added' event is emitted exactly for the
\* records whose projectId was not in the map when they were processed.
C19_ProjectUpsertLastWriteWins ==
  \A i \in 1..Len(projLog) :
    /\ projLog[i].added <=> ~IsSome(projLog[i].prior)
    /\ (\A j \in (i + 1)..Len(projLog) : projLog[j].pid # projLog[i].pid) =>
         /\ projLog[i].pid \in DOMAIN projects
         /\ projects[projLog[i].pid] = DerivedFrom(atStart.projectFiles[projLog[i].file])

\* A record without category and subCategory was processed when the projects
\* map held an entry for its projectId with category DEFI and a subCategory;
\* no 'project added' event was emitted for it.
C19_Witness ==
  \E i \in 1..Len(projLog) :
    /\ IsSome(projLog[i].prior)
    /\ Get(projLog[i].prior).category = "DEFI"
    /\ IsSome(Get(projLog[i].prior).subCategory)
    /\ atStart.projectFiles[projLog[i].file].category = None
    /\ atStart.projectFiles[projLog[i].file].subCategory = None
    /\ ~projLog[i].added
    /\ i = Len(projLog)

\* C20 as stated (resolution from the index copies both fields): when a record lacks
\* type or plutusVersion and the scripts map holds at its key an entry with
\* both, the candidate entry and the record as rewritten carry the type and
\* the plutusVersion of that entry, also when the record carried one of the
\* two with another value, no lookup is issued and the project record is
\* marked modified.
C20_IndexCopiesBothFields ==
  \A e \in Events :
    (LacksInfo(e.script) /\ HasBoth(e.existing)) =>
      /\ e.entry.type = Get(e.existing).type
      /\ e.entry.plutusVersion = Get(e.existing).plutusVersion
      /\ e.after.type = Get(e.existing).type
      /\ e.after.plutusVersion = Get(e.existing).plutusVersion
      /\ e.lookups = 0
      /\ e.modified

\* C20 as amended (resolution from the index fills the missing fields): when a
\* record lacks type or plutusVersion and the scripts map holds at its key an
\* entry with both, the candidate entry and the record as rewritten carry, for
\* each of the two fields, the record's own value when it has one and the
\* entry's value otherwise, no lookup is issued and the project record is
\* marked modified; a record that has neither field gets both from the entry.
C20_IndexFillsMissingFields ==
  \A e \in Events :
    (LacksInfo(e.script) /\ HasBoth(e.existing)) =>
      /\ e.entry.type = OrElse(e.script.type, Get(e.existing).type)
      /\ e.entry.plutusVersion =
           OrElse(e.script.plutusVersion, Get(e.existing).plutusVersion)
      /\ e.after.type = e.entry.type
      /\ e.after.plutusVersion = e.entry.plutusVersion
      /\ e.after = [e.script EXCEPT !.type = e.entry.type,
                                    !.plutusVersion = e.entry.plutusVersion]
      /\ e.lookups = 0
      /\ e.source = "index"
      /\ e.modified

\* A record with type NATIVE and no plutusVersion was processed when the map
\* held a PLUTUS entry with a plutusVersion at its key.
C20_Witness ==
  /\ \E e \in Events :
       /\ e.modified
       /\ e.script.type = Some("NATIVE") /\ e.script.plutusVersion = None
       /\ HasBoth(e.existing)
       /\ Get(e.existing).type = Some("PLUTUS")
       /\ e.entry.type = Some("NATIVE")
       /\ e.entry.plutusVersion = Get(e.existing).plutusVersion

\* The resolver added a type or a plutusVersion to the record of the event
Filled(e) == e.after # e.script

\* The files of the run that are staged for a rewrite
StagedPaths == {projectFilesToUpdate[w].path : w \in 1..Len(projectFilesToUpdate)}

\* The staged record is the original one in which scripts that lacked type or
\* plutusVersion got them: same scripts in the same order, same name,
\* scriptHash and purpose, the type and plutusVersion a script carried, and
\* every other field of the record
OnlyFillsAdded(original, staged) ==
  /\ [staged EXCEPT !.scripts = original.scripts] = original
  /\ Len(staged.scripts) = Len(original.scripts)
  /\ \A i \in 1..Len(original.scripts) :
       /\ staged.scripts[i].name = original.scripts[i].name
       /\ staged.scripts[i].scriptHash = original.scripts[i].scriptHash
       /\ staged.scripts[i].purpose = original.scripts[i].purpose
       /\ IsSome(original.scripts[i].type) =>
            staged.scripts[i].type = original.scripts[i].type
       /\ IsSome(original.scripts[i].plutusVersion) =>
            staged.scripts[i].plutusVersion = original.scripts[i].plutusVersion

\* What C21 states of the staged rewrites once the pass is over, for the set
\* of files that ought to be staged
StagingOf(expected) ==
  PassOver =>
    /\ StagedPaths = expected
    /\ \A w1, w2 \in 1..Len(projectFilesToUpdate) :
         projectFilesToUpdate[w1].path = projectFilesToUpdate[w2].path => w1 = w2
    /\ \A w \in 1..Len(projectFilesToUpdate) :
         LET k == projectFilesToUpdate[w].path
             staged == projectFilesToUpdate[w].project
         IN /\ OnlyFillsAdded(atStart.projectFiles[k], staged)
            /\ \A i \in 1..Len(staged.scripts) :
                 IF \E e \in Events : e.file = k /\ e.idx = i /\ Filled(e)
                   THEN \E e \in Events : e.file = k /\ e.idx = i /\ staged.scripts[i] = e.after
                   ELSE staged.scripts[i] = atStart.projectFiles[k].scripts[i]
            /\ (pc = "done" /\ ~dryRun) => projectFiles[k] = staged
    /\ \A k \in 1..Len(projectFiles) :
         k \notin StagedPaths => projectFiles[k] = atStart.projectFiles[k]

\* C21 (back-propagation staging): a project record is staged for a
\* rewrite if and only if the resolver filled type or plutusVersion of one of
\* its scripts during this run; the staged record is the whole original record
\* with these values added to the scripts that lacked them, and nothing else
\* of it is changed.
C21_StagedIffFilled ==
  StagingOf({e.file : e \in {f \in Events : Filled(f)}})

\* C22 (connection pool release): when the builder created a connection pool,
\* the pool is closed when the process ends, on the path through the commit
\* and on the path where registry/projects does not exist.
C22_PoolReleased ==
  (exitCode # None /\ dbAvailable) => dbPool = "ended"

\* The scripts map holds its entries under canonical keys only: no key of 112
\* characters, and no two keys with the same normalized form
CanonicalKeys(scriptMap) ==
  /\ \A k \in DOMAIN scriptMap : Length(k) # FullAddressLen
  /\ \A k1, k2 \in DOMAIN scriptMap : normalizeHash(k1) = normalizeHash(k2) => k1 = k2

\* C23 (convergence of legacy keys): when the loaded index holds an entry
\* under a 112-character key, the scripts map of a run that is over, the index
\* file a commit-mode run writes and the map the importer's pass over the
\* loaded keys produces hold an entry under the 56-character normalized key
\* and hold canonical keys only.
C23_LegacyKeysConverge ==
  (pc = "done" /\ Parsed(atStart.indexFile)) =>
    \A legacy \in {k \in DOMAIN atStart.indexFile.scripts : Length(k) = FullAddressLen} :
      /\ normalizeHash(legacy) \in DOMAIN scripts
      /\ CanonicalKeys(scripts)
      /\ ~dryRun => CanonicalKeys(indexFile.scripts)
      /\ CanonicalKeys(NormalizeExisting(atStart.indexFile.scripts,
                                         DOMAIN atStart.indexFile.scripts))

\* The Plutus language version a raw type of db-sync's script table names
EncodedVersion(raw) ==
  CASE raw \in {"PlutusV1", "plutusV1", "plutusv1"} -> Some(1)
    [] raw \in {"PlutusV2", "plutusV2", "plutusv2"} -> Some(2)
    [] raw \in {"PlutusV3", "plutusV3", "plutusv3"} -> Some(3)
    [] OTHER -> None

\* The record of the event with the fields it lacks taken from a lookup result
FilledWith(e, type, plutusVersion) ==
  /\ e.source = "db"
  /\ e.after = [e.script EXCEPT !.type = OrElse(e.script.type, Some(type)),
                                !.plutusVersion = OrElse(e.script.plutusVersion,
                                                         Some(plutusVersion))]
  /\ e.modified

\* C24 (external classification mapping): for a record a lookup is issued for,
\* a raw type timelock gives type NATIVE and plutusVersion 0, a raw type that
\* names Plutus language version N gives type PLUTUS and plutusVersion N, and
\* no row, another raw type or a failed query gives no result: the record
\* stays as it is and is not marked modified.  A result fills the fields the
\* record lacks and leaves the fields it carries; the candidate entry has the
\* type and plutusVersion of the record after the lookup.
C24_LookupMapping ==
  \A e \in Events :
    e.lookups = 1 =>
      LET raw == DbSyncRow(e.key) IN
      /\ raw = "timelock" => FilledWith(e, "NATIVE", 0)
      /\ IsSome(EncodedVersion(raw)) => FilledWith(e, "PLUTUS", Get(EncodedVersion(raw)))
      /\ (raw # "timelock" /\ ~IsSome(EncodedVersion(raw))) =>
           /\ e.source = "none"
           /\ e.after = e.script
           /\ ~e.modified
      /\ IsSome(e.script.type) => e.after.type = e.script.type
      /\ IsSome(e.script.plutusVersion) => e.after.plutusVersion = e.script.plutusVersion
      /\ e.entry.type = e.after.type
      /\ e.entry.plutusVersion = e.after.plutusVersion

\* In one run a lookup returned timelock for a record without type and
\* plutusVersion, and another returned a Plutus version, in lower case, for a
\* record that carried type NATIVE and kept it.
C24_Witness ==
  /\ \E e \in Events :
       /\ e.lookups = 1 /\ DbSyncRow(e.key) = "timelock"
       /\ e.script.type = None /\ e.script.plutusVersion = None
       /\ e.entry.type = Some("NATIVE") /\ e.entry.plutusVersion = Some(0)
  /\ \E e \in Events :
       /\ e.lookups = 1 /\ DbSyncRow(e.key) = "plutusv3"
       /\ e.script.type = Some("NATIVE")
       /\ e.entry.type = Some("NATIVE") /\ e.entry.plutusVersion = Some(3)

\* C25 (a failing record is skipped as a whole): when the loop over the files
\* has just left a project record that raised an error, the scripts map, the
\* projects map, the three counts and the staged rewrites are those the pass
\* had reached immediately before that record.
C25_FailingRecordLeavesNoTrace ==
  (pc = "files" /\ fileIdx >= 2 /\ FailsIn(atStart.projectFiles[fileIdx - 1])) =>
    SameOutcome(RunPass(atStart.indexFile,
                        SubSeq(DirEntries(atStart.projectFiles), 1, fileIdx - 2),
                        dbAvailable))

\* The project file has a label or a legacy projectName
Labelled(content) ==
  IsJson(content) /\ (content.label # <<>> \/ content.projectName # <<>>)

\* The script records of the project files, as pairs of file and position, that
\* have a non-empty scriptHash and were processed: those of the records with a
\* label that no script before them, nor they themselves, raised an error
ProcessedRecords(files) ==
  {r \in UNION {{<<k, i>> : i \in 1..Len(files[k].scripts)} :
                  k \in {f \in 1..Len(files) : Labelled(files[f])}} :
     /\ files[r[1]].scripts[r[2]].scriptHash # <<>>
     /\ \A j \in 1..r[2] : IsString(files[r[1]].scripts[j].scriptHash)}

\* C26 (count accounting): once the pass is over, added + updated + unchanged
\* is the number of script records with a non-empty scriptHash that were
\* processed in project records with a label or legacy projectName, and
\* exactly these records were classified; a record without label upserts no
\* projects entry; the keys of the projects map are the loaded ones and the
\* projectIds upserted for the labelled records, those without scripts
\* included; the keys of the scripts map are the loaded ones and the keys of
\* the processed records, and their number is the number loaded plus added.
C26_CountAccounting ==
  PassOver =>
    LET files == atStart.projectFiles
        labelled == {k \in 1..Len(files) : Labelled(files[k])}
        processed == ProcessedRecords(files)
        loaded == LoadScripts(atStart.indexFile)
    IN /\ added + updated + unchanged = Cardinality(processed)
       /\ Len(log) = Cardinality(processed)
       /\ {<<e.file, e.idx>> : e \in Events} = processed
       /\ {projLog[i].file : i \in 1..Len(projLog)} = labelled
       /\ \A e \in Events : e.script = files[e.file].scripts[e.idx]
       /\ DOMAIN projects = DOMAIN LoadProjects(atStart.indexFile) \cup PidsUpserted
       /\ DOMAIN scripts = DOMAIN loaded \cup KeysProduced
       /\ Cardinality(DOMAIN scripts) = Cardinality(DOMAIN loaded) + added

\* The pass is over a record without label that has a script, and a labelled
\* record with a script without hash and a script that was counted.
C26_Witness ==
  /\ PassOver
  /\ added + updated + unchanged > 0
  /\ \E k \in 1..Len(atStart.projectFiles) :
       /\ IsJson(atStart.projectFiles[k])
       /\ ~Labelled(atStart.projectFiles[k])
       /\ Len(atStart.projectFiles[k].scripts) > 0
  /\ \E k \in 1..Len(atStart.projectFiles) :
       /\ Labelled(atStart.projectFiles[k])
       /\ \E i \in 1..Len(atStart.projectFiles[k].scripts) :
            atStart.projectFiles[k].scripts[i].scriptHash = <<>>

====
